---------------------------- MODULE Spec2Model ----------------------------
(***************************************************************************)
(* Contact book: the contacts repository (src/src/repository/contacts.py)  *)
(* and its HTTP routes (src/src/routes/contacts.py) as a state machine     *)
(* over one shared contacts table.                                         *)
(*                                                                         *)
(* A handler runs as a coroutine: it gives way to the other requests at    *)
(* each await on its database session (execute, commit, refresh, delete),  *)
(* so each such call is one step, and each request has a session of its    *)
(* own holding the rows it loaded.                                         *)
(*                                                                         *)
(* Text values are sequences of characters; a character is a string, an    *)
(* ASCII character itself and any other its code point ("U+00C9").  An     *)
(* Optional value is a sequence of length 0 (None) or 1.                   *)
(***************************************************************************)
EXTENDS Integers, Sequences, FiniteSets

VARIABLES
    store,   \* the database: the contacts table and its id sequence
    engine,  \* the database engine the deployment runs on
    req      \* per client: its request, where its handler stands, its response

vars == <<store, engine, req>>

---------------------------------------------------------------------------
(* Bounds of the model *)

\* ids the store hands out: 1..MaxId
MaxId == 2

\* the largest limit of a direct repository call to get_contacts
MaxLimit == 1

(* Program constants *)

\* routes/contacts.py: limit: int = Query(10, ge=10, le=500)
LimitMin == 10

\* timedelta(days=7)
WeekDays == 7

---------------------------------------------------------------------------
(* Input values *)

Users == {1, 2}

Clients == {"c1", "c2"}

\* the client of the deployment that handles one request at a time
SeqClients == {"c1"}

\* the owner of the requests that run concurrently
ConcUsers == {1}

\* A deployment's database.  SQLite's lower() folds ASCII letters only;
\* PostgreSQL's folds by the database's lc_ctype, one character to one
\* character, and folds ASCII letters only when lc_ctype is C.  The ids of
\* the contacts table come from a sequence on PostgreSQL and on a SQLite
\* table declared with AUTOINCREMENT; a SQLite table without it, as the
\* dialect creates it by default, gives the highest id in the table plus one.
\* For this code SQLite with AUTOINCREMENT behaves as PostgreSQL with
\* lc_ctype C, so the deployments are the three others.
SQLite(autoincrement) ==
    [name |-> "sqlite", lc_ctype |-> "C", autoincrement |-> autoincrement]

PostgreSQL(lc_ctype) ==
    [name |-> "postgresql", lc_ctype |-> lc_ctype, autoincrement |-> TRUE]

Engines == {SQLite(FALSE), PostgreSQL("C"), PostgreSQL("en_US.UTF-8")}

None == <<>>

Some(v) == <<v>>

s_ann == <<"a", "n", "n">>
s_ANN == <<"A", "N", "N">>
s_bob == <<"b", "o", "b">>
s_lee == <<"l", "e", "e">>
s_Lee == <<"L", "e", "e">>
s_Eva == <<"U+00C9", "v", "a">>
s_Il == <<"U+0130", "l">>
s_mail == <<"a", "@", "x">>
s_Mail == <<"A", "@", "x">>
s_n1 == <<"1">>
s_n2 == <<"2">>
s_note == <<"h", "i">>

Date(y, m, d) == [year |-> y, month |-> m, day |-> d]

\* ContactSchema bodies the requests carry
body1 == [name |-> s_ann, surname |-> s_lee, email |-> s_mail, number |-> s_n1,
          bd_date |-> Date(1990, 1, 12), additional_data |-> None]
body2 == [name |-> s_ANN, surname |-> s_Eva, email |-> s_Mail, number |-> s_n1,
          bd_date |-> Date(1985, 1, 30), additional_data |-> Some(s_note)]
body3 == [name |-> s_bob, surname |-> s_Il, email |-> s_mail, number |-> s_n2,
          bd_date |-> Date(2000, 1, 2), additional_data |-> None]

Bodies == {body1, body2, body3}

\* search values
Values == {s_ANN, s_Lee, s_Mail, s_Eva, s_Il}

\* values of datetime.today()
Todays == {Date(2024, 1, 10), Date(2024, 1, 28), Date(2023, 12, 28)}

NoBody == [name |-> <<>>, surname |-> <<>>, email |-> <<>>, number |-> <<>>,
           bd_date |-> Date(0, 0, 0), additional_data |-> None]

NoDate == Date(0, 0, 0)

---------------------------------------------------------------------------
(* Case folding.  The letters with a lower case are the ASCII capitals and *)
(* the capitals of NonAsciiUpper; text is made of these and of characters  *)
(* without case.                                                           *)

UpperCase == <<"A", "B", "C", "D", "E", "F", "G", "H", "I", "J", "K", "L", "M",
               "N", "O", "P", "Q", "R", "S", "T", "U", "V", "W", "X", "Y", "Z">>

LowerCase == <<"a", "b", "c", "d", "e", "f", "g", "h", "i", "j", "k", "l", "m",
               "n", "o", "p", "q", "r", "s", "t", "u", "v", "w", "x", "y", "z">>

\* E acute, A grave, I with dot above
NonAsciiUpper == <<"U+00C9", "U+00C0", "U+0130">>

\* str.lower() of each: e acute, a grave, and i followed by a combining dot
PyLowerOfNonAscii == <<(<<"U+00E9">>), (<<"U+00E0">>), (<<"i", "U+0307">>)>>

\* the single-character lower case of each in a locale that has these letters
LocaleLowerOfNonAscii == <<"U+00E9", "U+00E0", "i">>

IndexOf(seq, x) == CHOOSE i \in DOMAIN seq : seq[i] = x

IsIn(seq, x) == \E i \in DOMAIN seq : seq[i] = x

\* the lower case of one ASCII character
ascii_lower_char(c) == IF IsIn(UpperCase, c) THEN LowerCase[IndexOf(UpperCase, c)] ELSE c

\* str.lower() of one character: a text, since the result may be longer
py_lower_char(c) ==
    IF IsIn(NonAsciiUpper, c) THEN PyLowerOfNonAscii[IndexOf(NonAsciiUpper, c)]
    ELSE <<ascii_lower_char(c)>>

\* str.lower(): Python's, applied to the value searched for
RECURSIVE py_lower(_)
py_lower(s) == IF s = <<>> THEN <<>> ELSE py_lower_char(Head(s)) \o py_lower(Tail(s))

\* lower() of one character in the database
sql_lower_char(c, eng) ==
    IF eng.name = "postgresql" /\ eng.lc_ctype # "C" /\ IsIn(NonAsciiUpper, c)
    THEN LocaleLowerOfNonAscii[IndexOf(NonAsciiUpper, c)]
    ELSE ascii_lower_char(c)

\* func.lower(column): the database's, applied to the stored text
sql_lower(s, eng) == [i \in 1..Len(s) |-> sql_lower_char(s[i], eng)]

---------------------------------------------------------------------------
(* datetime arithmetic: today + timedelta(days=7) *)

is_leap(y) == (y % 4 = 0 /\ y % 100 # 0) \/ y % 400 = 0

days_in_month(y, m) ==
    IF m = 2 THEN (IF is_leap(y) THEN 29 ELSE 28)
    ELSE IF m \in {4, 6, 9, 11} THEN 30 ELSE 31

next_day(t) ==
    IF t.day < days_in_month(t.year, t.month) THEN Date(t.year, t.month, t.day + 1)
    ELSE IF t.month < 12 THEN Date(t.year, t.month + 1, 1)
    ELSE Date(t.year + 1, 1, 1)

RECURSIVE add_days(_, _)
add_days(t, n) == IF n = 0 THEN t ELSE add_days(next_day(t), n - 1)

\* SQL: x BETWEEN lo AND hi
between(x, lo, hi) == lo <= x /\ x <= hi

---------------------------------------------------------------------------
(* The store's queries *)

Range(seq) == {seq[i] : i \in DOMAIN seq}

\* Result.scalar_one_or_none(): the single row, None, or MultipleResultsFound
scalar_one_or_none(rows) ==
    IF Len(rows) > 1 THEN [raised |-> TRUE, value |-> None]
    ELSE [raised |-> FALSE, value |-> rows]

\* the orders in which a SELECT without ORDER BY may yield the given rows
Orderings(rows) ==
    {[i \in DOMAIN rows |-> rows[p[i]]] :
        p \in {q \in [DOMAIN rows -> DOMAIN rows] :
                  \A i, j \in DOMAIN rows : i # j => q[i] # q[j]}}

\* OFFSET offset LIMIT limit
offset_limit(rows, offset, limit) ==
    SubSeq(rows, offset + 1, IF offset + limit < Len(rows) THEN offset + limit ELSE Len(rows))



---------------------------------------------------------------------------
(* The repository: src/src/repository/contacts.py, one definition for each  *)
(* call on the session.  db is the store as the call finds it.              *)

\* Contact(...): the row a body and an owner make, under the id the store gives
Contact(id, body, user) ==
    [id |-> id, user_id |-> user, name |-> body.name, surname |-> body.surname,
     email |-> body.email, number |-> body.number, bd_date |-> body.bd_date,
     additional_data |-> body.additional_data]

\* the possible results: the SELECT has no ORDER BY
get_contacts(limit, offset, user, db) ==
    {offset_limit(rows, offset, limit) :
        rows \in Orderings(SelectSeq(db.contacts, LAMBDA c : c.user_id = user))}

get_contact(contact_id, user, db) ==
    scalar_one_or_none(
        SelectSeq(db.contacts, LAMBDA c : c.id = contact_id /\ c.user_id = user))

get_existing_contact(body, user, db) ==
    scalar_one_or_none(
        SelectSeq(db.contacts, LAMBDA c : /\ c.email = body.email
                                         /\ c.number = body.number
                                         /\ c.user_id = user))

\* the highest id in the table, 0 when it is empty
max_id(db) ==
    IF db.contacts = <<>> THEN 0
    ELSE CHOOSE m \in {c.id : c \in Range(db.contacts)} :
             \A c \in Range(db.contacts) : c.id <= m

\* the id the store generates for the next INSERT
generated_id(db, eng) ==
    IF eng.name = "sqlite" /\ ~eng.autoincrement THEN max_id(db) + 1 ELSE db.next_id

\* create_contact: db.add(contact); await db.commit(), first round trip: the
\* flush sends the INSERT, which takes the id; the row is in the session's
\* transaction, not yet in the table the other requests read.  A value taken
\* from a sequence is not given again.
create_contact_insert(body, user, db, eng) ==
    LET id == generated_id(db, eng)
    IN  [contact |-> Contact(id, body, user),
         db |-> IF eng.name = "sqlite" /\ ~eng.autoincrement THEN db
                ELSE [db EXCEPT !.next_id = id + 1]]

\* faulty variant: a commit that does not store additional_data
create_contact_commit_DropsAdditional(contact, db) ==
    [db EXCEPT !.contacts = Append(@, [contact EXCEPT !.additional_data = None])]

\* create_contact: await db.commit(), second round trip: the COMMIT puts the
\* inserted row in the table
create_contact_commit(contact, db) ==
    [db EXCEPT !.contacts = Append(@, contact)]

\* await db.refresh(contact): the row of that primary key as it is now, or
\* InvalidRequestError when it is gone
refresh(contact_id, db) ==
    LET rows == SelectSeq(db.contacts, LAMBDA c : c.id = contact_id)
    IN  [raised |-> rows = <<>>, value |-> rows]

\* faulty variant: a select by id alone, without the owner
update_contact_select_AnyOwner(contact_id, user, db) ==
    scalar_one_or_none(SelectSeq(db.contacts, LAMBDA c : c.id = contact_id))

\* update_contact: the select and scalar_one_or_none
update_contact_select(contact_id, user, db) ==
    scalar_one_or_none(
        SelectSeq(db.contacts, LAMBDA c : c.id = contact_id /\ c.user_id = user))

\* the row with the columns set in which the body differs from the row as
\* the session loaded it: the UPDATE names only the attributes that changed
set_changed(row, loaded, body) ==
    [row EXCEPT
        !.name = IF body.name # loaded.name THEN body.name ELSE @,
        !.surname = IF body.surname # loaded.surname THEN body.surname ELSE @,
        !.email = IF body.email # loaded.email THEN body.email ELSE @,
        !.number = IF body.number # loaded.number THEN body.number ELSE @,
        !.bd_date = IF body.bd_date # loaded.bd_date THEN body.bd_date ELSE @,
        !.additional_data = IF body.additional_data # loaded.additional_data
                            THEN body.additional_data ELSE @]

\* update_contact: the six assignments and await db.commit().  Without a
\* changed attribute no UPDATE is sent; an UPDATE that matches no row raises
\* StaleDataError.
update_contact_commit(loaded, body, db) ==
    IF set_changed(loaded, loaded, body) = loaded THEN [raised |-> FALSE, db |-> db]
    ELSE IF \A c \in Range(db.contacts) : c.id # loaded.id THEN [raised |-> TRUE, db |-> db]
    ELSE [raised |-> FALSE,
          db |-> [db EXCEPT !.contacts =
                     [i \in DOMAIN @ |-> IF @[i].id = loaded.id
                                         THEN set_changed(@[i], loaded, body)
                                         ELSE @[i]]]]

\* remove_contact: the select and scalar_one_or_none
remove_contact_select(contact_id, user, db) ==
    scalar_one_or_none(
        SelectSeq(db.contacts, LAMBDA c : c.id = contact_id /\ c.user_id = user))

\* remove_contact: await db.commit(): DELETE by primary key; a DELETE that
\* matches no row only warns
remove_contact_commit(loaded, db) ==
    [db EXCEPT !.contacts = SelectSeq(@, LAMBDA c : c.id # loaded.id)]

\* faulty variant: get_by_field without filter_by(user=user)
get_by_field_AnyUser(contact_value, user, db, eng) ==
    {c \in Range(db.contacts) :
        \/ sql_lower(c.name, eng) = py_lower(contact_value)
        \/ sql_lower(c.surname, eng) = py_lower(contact_value)
        \/ c.email = contact_value}

\* the rows found; the order the store yields them in is not modelled
get_by_field(contact_value, user, db, eng) ==
    {c \in Range(db.contacts) :
        /\ c.user_id = user
        /\ \/ sql_lower(c.name, eng) = py_lower(contact_value)
           \/ sql_lower(c.surname, eng) = py_lower(contact_value)
           \/ c.email = contact_value}

\* today is the value datetime.today() returns inside the call
birthday_week_contacts(user, db, today) ==
    LET next_week == add_days(today, WeekDays)
    IN  {c \in Range(db.contacts) :
            /\ c.user_id = user
            /\ between(c.bd_date.month, today.month, next_week.month)
            /\ between(c.bd_date.day, today.day, next_week.day)}

---------------------------------------------------------------------------
(* State *)

\* a client without a request
Idle ==
    [pc |-> "idle", op |-> "none", user |-> 0, contact_id |-> 0, body |-> NoBody,
     value |-> <<>>, today |-> NoDate, limit |-> 0, offset |-> 0, loaded |-> None,
     status |-> 0, result |-> <<>>, found |-> {}]

\* a request of the given kind and caller, before its handler has run
Request(op, user) == [Idle EXCEPT !.op = op, !.user = user]

\* the request answered: an exception no handler catches is a 500
Answer(r, status, result) ==
    [r EXCEPT !.pc = "done", !.loaded = None, !.status = status, !.result = result]

\* a client can send a request when it has none or has its answer
Ready(c) == req[c].pc \in {"idle", "done"}

EmptyStore == [contacts |-> <<>>, next_id |-> 1]

Init ==
    /\ store = EmptyStore
    /\ engine \in Engines
    /\ req = [c \in Clients |-> Idle]

ContactIds == 1..MaxId

\* offset: int = Query(0, ge=0): none skipped, one skipped, all skipped
Offsets == {0, 1, MaxId}

\* the creates that passed the duplicate check and have not inserted yet;
\* a create is let past the check only while an id within MaxId is left for it
Inserting == Cardinality({c \in Clients : req[c].op = "create" /\ req[c].pc = "commit"})

---------------------------------------------------------------------------
(* The routes: src/src/routes/contacts.py, one action for each stretch of a *)
(* handler between two awaits.                                              *)

\* GET /contacts/
GetContacts(c) ==
    /\ Ready(c)
    /\ \E user \in Users, offset \in Offsets :
        \E result \in get_contacts(LimitMin, offset, user, store) :
            req' = [req EXCEPT ![c] =
                       Answer([Request("list", user) EXCEPT !.limit = LimitMin,
                                                            !.offset = offset],
                              200, result)]
    /\ UNCHANGED <<store, engine>>

\* get_contacts called as the unit test calls it, with any limit
RepoGetContacts(c) ==
    /\ Ready(c)
    /\ \E user \in Users, limit \in 0..MaxLimit, offset \in Offsets :
        \E result \in get_contacts(limit, offset, user, store) :
            req' = [req EXCEPT ![c] =
                       Answer([Request("list", user) EXCEPT !.limit = limit,
                                                            !.offset = offset],
                              200, result)]
    /\ UNCHANGED <<store, engine>>

\* GET /contacts/{contact_id}
GetContact(c) ==
    /\ Ready(c)
    /\ \E user \in Users, contact_id \in ContactIds :
        LET contact == get_contact(contact_id, user, store)
            r == [Request("get", user) EXCEPT !.contact_id = contact_id]
        IN  req' = [req EXCEPT ![c] =
                       IF contact.raised THEN Answer(r, 500, None)
                       ELSE IF contact.value = None THEN Answer(r, 404, None)
                       ELSE Answer(r, 200, contact.value)]
    /\ UNCHANGED <<store, engine>>

\* GET /contacts/search/{contact_value}
GetContactsByField(c) ==
    /\ Ready(c)
    /\ \E user \in Users, contact_value \in Values :
        req' = [req EXCEPT ![c] =
                   [Answer([Request("search", user) EXCEPT !.value = contact_value],
                           200, None)
                    EXCEPT !.found = get_by_field(contact_value, user, store, engine)]]
    /\ UNCHANGED <<store, engine>>

\* GET /contacts/birthday/next-week
GetBirthdayNextWeek(c) ==
    /\ Ready(c)
    /\ \E user \in Users, today \in Todays :
        req' = [req EXCEPT ![c] =
                   [Answer([Request("birthday", user) EXCEPT !.today = today], 200, None)
                    EXCEPT !.found = birthday_week_contacts(user, store, today)]]
    /\ UNCHANGED <<store, engine>>

\* POST /contacts/: up to the return of get_existing_contact, and the 400
CreateCheck(c, users, bodies) ==
    /\ Ready(c)
    /\ \E user \in users, body \in bodies :
        LET existing_contact == get_existing_contact(body, user, store)
            r == [Request("create", user) EXCEPT !.body = body]
        IN  IF existing_contact.raised
            THEN req' = [req EXCEPT ![c] = Answer(r, 500, None)]
            ELSE IF existing_contact.value # None
            THEN req' = [req EXCEPT ![c] = Answer(r, 400, None)]
            ELSE /\ generated_id(store, engine) + Inserting <= MaxId
                 /\ req' = [req EXCEPT ![c] = [r EXCEPT !.pc = "commit"]]
    /\ UNCHANGED <<store, engine>>

\* POST /contacts/: repository create_contact up to the INSERT that
\* db.commit flushes; the session holds the new row with its id
CreateInsert(c) ==
    /\ req[c].op = "create"
    /\ req[c].pc = "commit"
    /\ LET inserted == create_contact_insert(req[c].body, req[c].user, store, engine)
       IN  /\ store' = inserted.db
           /\ req' = [req EXCEPT ![c].pc = "inserted",
                                 ![c].contact_id = inserted.contact.id,
                                 ![c].loaded = <<inserted.contact>>]
    /\ UNCHANGED engine

\* POST /contacts/: the COMMIT of db.commit, up to its return
CreateCommit(c) ==
    /\ req[c].op = "create"
    /\ req[c].pc = "inserted"
    /\ store' = create_contact_commit(req[c].loaded[1], store)
    /\ req' = [req EXCEPT ![c].pc = "refresh"]
    /\ UNCHANGED engine

\* POST /contacts/: db.refresh and the 201
CreateRefresh(c) ==
    /\ req[c].op = "create"
    /\ req[c].pc = "refresh"
    /\ LET contact == refresh(req[c].contact_id, store)
       IN  req' = [req EXCEPT ![c] = IF contact.raised THEN Answer(@, 500, None)
                                     ELSE Answer(@, 201, contact.value)]
    /\ UNCHANGED <<store, engine>>

\* PUT /contacts/{contact_id}: up to the return of the select, and the 404
UpdateSelect(c, users, bodies) ==
    /\ Ready(c)
    /\ \E user \in users, contact_id \in ContactIds, body \in bodies :
        LET contact == update_contact_select(contact_id, user, store)
            r == [Request("update", user) EXCEPT !.contact_id = contact_id, !.body = body]
        IN  req' = [req EXCEPT ![c] =
                       IF contact.raised THEN Answer(r, 500, None)
                       ELSE IF contact.value = None THEN Answer(r, 404, None)
                       ELSE [r EXCEPT !.pc = "commit", !.loaded = contact.value]]
    /\ UNCHANGED <<store, engine>>

\* PUT /contacts/{contact_id}: the assignments, up to the return of db.commit.
\* The UPDATE and the COMMIT are one step: the UPDATE locks the row until the
\* COMMIT, so a write of another request to that row waits for the COMMIT,
\* and the other requests read the row as it was until then.
UpdateCommit(c) ==
    /\ req[c].op = "update"
    /\ req[c].pc = "commit"
    /\ LET committed == update_contact_commit(req[c].loaded[1], req[c].body, store)
       IN  /\ store' = committed.db
           /\ req' = [req EXCEPT ![c] = IF committed.raised THEN Answer(@, 500, None)
                                        ELSE [@ EXCEPT !.pc = "refresh"]]
    /\ UNCHANGED engine

\* PUT /contacts/{contact_id}: db.refresh and the 200
UpdateRefresh(c) ==
    /\ req[c].op = "update"
    /\ req[c].pc = "refresh"
    /\ LET contact == refresh(req[c].contact_id, store)
       IN  req' = [req EXCEPT ![c] = IF contact.raised THEN Answer(@, 500, None)
                                     ELSE Answer(@, 200, contact.value)]
    /\ UNCHANGED <<store, engine>>

\* DELETE /contacts/{contact_id}: up to the return of the select, and the 404
DeleteSelect(c, users) ==
    /\ Ready(c)
    /\ \E user \in users, contact_id \in ContactIds :
        LET contact == remove_contact_select(contact_id, user, store)
            r == [Request("delete", user) EXCEPT !.contact_id = contact_id]
        IN  req' = [req EXCEPT ![c] =
                       IF contact.raised THEN Answer(r, 500, None)
                       ELSE IF contact.value = None THEN Answer(r, 404, None)
                       ELSE [r EXCEPT !.pc = "delete", !.loaded = contact.value]]
    /\ UNCHANGED <<store, engine>>

\* DELETE /contacts/{contact_id}: await db.delete(contact) marks the object
\* in the session
DeleteMark(c) ==
    /\ req[c].op = "delete"
    /\ req[c].pc = "delete"
    /\ req' = [req EXCEPT ![c].pc = "commit"]
    /\ UNCHANGED <<store, engine>>

\* DELETE /contacts/{contact_id}: db.commit and the 200 with the object as
\* the session holds it.  The DELETE and the COMMIT are one step, as for the
\* UPDATE.
DeleteCommit(c) ==
    /\ req[c].op = "delete"
    /\ req[c].pc = "commit"
    /\ store' = remove_contact_commit(req[c].loaded[1], store)
    /\ req' = [req EXCEPT ![c] = Answer(@, 200, req[c].loaded)]
    /\ UNCHANGED engine

---------------------------------------------------------------------------
(* A deployment that handles one request at a time *)

Next ==
    \E c \in SeqClients :
        \/ GetContacts(c)
        \/ RepoGetContacts(c)
        \/ GetContact(c)
        \/ GetContactsByField(c)
        \/ GetBirthdayNextWeek(c)
        \/ CreateCheck(c, Users, Bodies)
        \/ CreateInsert(c)
        \/ CreateCommit(c)
        \/ CreateRefresh(c)
        \/ UpdateSelect(c, Users, Bodies)
        \/ UpdateCommit(c)
        \/ UpdateRefresh(c)
        \/ DeleteSelect(c, Users)
        \/ DeleteMark(c)
        \/ DeleteCommit(c)

Spec == Init /\ [][Next]_vars

---------------------------------------------------------------------------
(* Requests handled concurrently: the handlers of the clients interleave at *)
(* their awaits.                                                            *)

InitConc ==
    /\ store = EmptyStore
    /\ engine = PostgreSQL("en_US.UTF-8")
    /\ req = [c \in Clients |-> Idle]

NextConc ==
    \E c \in Clients :
        \/ CreateCheck(c, ConcUsers, Bodies)
        \/ CreateInsert(c)
        \/ CreateCommit(c)
        \/ CreateRefresh(c)
        \/ UpdateSelect(c, ConcUsers, Bodies)
        \/ UpdateCommit(c)
        \/ UpdateRefresh(c)
        \/ DeleteSelect(c, ConcUsers)
        \/ DeleteMark(c)
        \/ DeleteCommit(c)

SpecConc == InitConc /\ [][NextConc]_vars

---------------------------------------------------------------------------
(* Properties *)

Rows(db) == Range(db.contacts)

\* the rows of the table that carry the given id and owner
Owned(db, contact_id, user) ==
    {c \in Rows(db) : c.id = contact_id /\ c.user_id = user}

\* the six fields of a row equal those of a body
SameFields(c, body) ==
    /\ c.name = body.name
    /\ c.surname = body.surname
    /\ c.email = body.email
    /\ c.number = body.number
    /\ c.bd_date = body.bd_date
    /\ c.additional_data = body.additional_data

\* two texts equal up to the case of their letters
SameIgnoringCase(s, t) == py_lower(s) = py_lower(t)

\* client c has the answer to a request of the given kind
Answered(c, op) == req[c].pc = "done" /\ req[c].op = op

\* client c sends a request of one of the given kinds in this step
Sends(c, ops) == Ready(c) /\ req'[c] # req[c] /\ req'[c].op \in ops

\* the contacts a read returned to client c
Returned(c) ==
    IF req[c].pc # "done" THEN {}
    ELSE IF req[c].op \in {"get", "list"} THEN Range(req[c].result)
    ELSE IF req[c].op \in {"search", "birthday"} THEN req[c].found
    ELSE {}

\* C1: a read issued with owner U2 (get by id, list, search, birthday) never
\* returns a contact of another owner U1: every contact returned carries the
\* caller as its owner, and its id is not the id of another owner's contact.
C1_OwnerIsolation ==
    \A c \in Clients : \A x \in Returned(c) :
        /\ x.user_id = req[c].user
        /\ \A d \in Rows(store) : d.id = x.id => d.user_id = req[c].user

\* C1 witness: a search returned contacts while another owner holds a contact
\* whose name matches the value searched.
C1_Witness ==
    \E c \in Clients :
        /\ Answered(c, "search")
        /\ req[c].found # {}
        /\ \E d \in Rows(store) : /\ d.user_id # req[c].user
                                  /\ sql_lower(d.name, engine) = py_lower(req[c].value)

\* C2 (as claimed): a create is rejected with 400, the store unchanged, when a
\* contact with the same owner, email and number exists, and otherwise (the
\* pair absent, or present only under another owner) goes on to add one row
\* for the calling owner and is answered 201.
C2_ConflictExactlyOnKey ==
    [][\A c \in Clients :
        /\ Sends(c, {"create"}) =>
              LET dup == \E d \in Rows(store) : /\ d.user_id = req'[c].user
                                                /\ d.email = req'[c].body.email
                                                /\ d.number = req'[c].body.number
              IN  /\ store' = store
                  /\ dup => req'[c].pc = "done" /\ req'[c].status = 400
                  /\ ~dup => req'[c].pc = "commit"
        /\ (req[c].op = "create" /\ req[c].pc = "commit" /\ req'[c].pc # "commit") =>
              req'[c].pc = "inserted" /\ store'.contacts = store.contacts
        /\ (req[c].op = "create" /\ req[c].pc = "inserted" /\ req'[c].pc # "inserted") =>
              store'.contacts =
                  Append(store.contacts,
                         Contact(req[c].contact_id, req[c].body, req[c].user))
        /\ (req[c].op = "create" /\ req[c].pc = "refresh" /\ req'[c].pc = "done") =>
              req'[c].status = 201]_vars

\* C3: after a successful create, get_contact(returned id, owner) yields an
\* entity whose six fields are the body's and whose id is the generated,
\* non-null id, which no other stored contact carries.
C3_CreateGetRoundTrip ==
    \A c \in Clients :
        (Answered(c, "create") /\ req[c].status = 201) =>
            /\ Len(req[c].result) = 1
            /\ req[c].result[1].id >= 1
            /\ LET got == get_contact(req[c].result[1].id, req[c].user, store)
               IN  /\ ~got.raised
                   /\ Len(got.value) = 1
                   /\ got.value[1].id = req[c].result[1].id
                   /\ SameFields(got.value[1], req[c].body)
            /\ Cardinality({i \in DOMAIN store.contacts :
                                store.contacts[i].id = req[c].result[1].id}) = 1

\* C3 witness: a create succeeded with a body that carries additional data,
\* next to another stored contact.
C3_Witness ==
    \E c \in Clients :
        /\ Answered(c, "create")
        /\ req[c].status = 201
        /\ req[c].body.additional_data # None
        /\ Len(store.contacts) >= 2

\* C4: an update or a delete addressed to an (id, owner) pair that no contact
\* has, also when the id exists under another owner, is answered 404 with no
\* entity and leaves the whole store as it was.
C4_NotFoundIsNoOp ==
    [][\A c \in Clients :
        (/\ Sends(c, {"update", "delete"})
         /\ Owned(store, req'[c].contact_id, req'[c].user) = {}) =>
            /\ req'[c].pc = "done"
            /\ req'[c].status = 404
            /\ req'[c].result = None
            /\ store' = store]_vars

\* C4 witness: an update was answered 404 although a contact with that id
\* exists, under another owner.
C4_Witness ==
    \E c \in Clients :
        /\ Answered(c, "update")
        /\ req[c].status = 404
        /\ \E d \in Rows(store) : d.id = req[c].contact_id /\ d.user_id # req[c].user

\* C5 (as claimed): an update that found its (id, owner) writes all six fields
\* of the body in one step, leaving the contact's id and owner, every other
\* contact and the id sequence as they were, and returns that entity.
C5_UpdateOverwritesAllFields ==
    [][\A c \in Clients :
        LET written == Contact(req[c].contact_id, req[c].body, req[c].user)
        IN  req[c].op = "update" =>
              /\ (req[c].pc = "commit" /\ req'[c].pc # "commit") =>
                    /\ req'[c].pc = "refresh"
                    /\ store'.next_id = store.next_id
                    /\ Owned(store, req[c].contact_id, req[c].user) # {}
                    /\ Len(store'.contacts) = Len(store.contacts)
                    /\ \A i \in DOMAIN store.contacts :
                          store'.contacts[i] =
                              IF store.contacts[i].id = req[c].contact_id
                              THEN written ELSE store.contacts[i]
              /\ (req[c].pc = "refresh" /\ req'[c].pc = "done") =>
                    /\ req'[c].status = 200
                    /\ req'[c].result = <<written>>]_vars

\* C6 (as claimed): a delete that found its (id, owner) returns the entity as
\* it was just before the deletion, removes exactly that row (get_contact
\* then finds nothing), and keeps every other contact, unchanged.
C6_RemoveDeletesExactlyThatRow ==
    [][\A c \in Clients :
        (req[c].op = "delete" /\ req[c].pc = "commit" /\ req'[c].pc = "done") =>
            /\ req'[c].status = 200
            /\ Len(req'[c].result) = 1
            /\ req'[c].result[1] \in Owned(store, req[c].contact_id, req[c].user)
            /\ get_contact(req[c].contact_id, req[c].user, store') =
                   [raised |-> FALSE, value |-> None]
            /\ Rows(store') = Rows(store) \ {req'[c].result[1]}
            /\ Len(store'.contacts) = Len(store.contacts) - 1]_vars

\* the month-and-day pairs of the days today, today+1, ..., today+7
WeekWindow(today) ==
    {<<add_days(today, k).month, add_days(today, k).day>> : k \in 0..WeekDays}

\* C7 (as claimed): the birthday query returns exactly the caller's contacts
\* whose birth month and day fall on one of the days today .. today+7.
C7_BirthdayCalendarRange ==
    \A c \in Clients :
        Answered(c, "birthday") =>
            req[c].found = {d \in Rows(store) :
                               /\ d.user_id = req[c].user
                               /\ <<d.bd_date.month, d.bd_date.day>> \in WeekWindow(req[c].today)}

\* C8 (as claimed): a search returns exactly the caller's contacts whose name
\* or surname equals the value up to letter case, or whose email equals it
\* exactly.
C8_SearchCaseRules ==
    \A c \in Clients :
        Answered(c, "search") =>
            req[c].found = {d \in Rows(store) :
                               /\ d.user_id = req[c].user
                               /\ \/ SameIgnoringCase(d.name, req[c].value)
                                  \/ SameIgnoringCase(d.surname, req[c].value)
                                  \/ d.email = req[c].value}

\* the caller's contacts in the order of their creation
InInsertionOrder(db, user) == SelectSeq(db.contacts, LAMBDA c : c.user_id = user)

\* C9 (as claimed): a listing is the caller's contacts in insertion order,
\* without the first `offset` of them and cut to `limit`.
C9_ListInInsertionOrder ==
    \A c \in Clients :
        Answered(c, "list") =>
            req[c].result = offset_limit(InInsertionOrder(store, req[c].user),
                                         req[c].offset, req[c].limit)

\* C10 (as claimed): no owner ever holds two contacts with the same email and
\* the same number.
C10_SoftUniqueness ==
    \A i, j \in DOMAIN store.contacts :
        (/\ i # j
         /\ store.contacts[i].user_id = store.contacts[j].user_id
         /\ store.contacts[i].email = store.contacts[j].email)
            => store.contacts[i].number # store.contacts[j].number

===========================================================================
